---- MODULE Spec2Model ----
(***************************************************************************)
(* Model of generate_products.py: the SKU generator generate_sku, and the  *)
(* row loop of main with its uniqueness-repair loop and the final CSV      *)
(* write.  Strings that the program builds, splits or parses (SKUs and     *)
(* product names) are sequences of one-character strings; the fixed cells  *)
(* of the row template are plain strings.                                  *)
(***************************************************************************)
EXTENDS Integers, Sequences, FiniteSets, TLC

(* ------------------------------------------------------------------ *)
(* Bounds of the model                                                  *)
(* ------------------------------------------------------------------ *)
\* largest --num-entries explored
MaxRows == 7
\* most negative --num-entries explored is -NegRows
NegRows == 1

(* ------------------------------------------------------------------ *)
(* Python string and integer conversions                                *)
(* ------------------------------------------------------------------ *)
DigitChars == <<"0", "1", "2", "3", "4", "5", "6", "7", "8", "9">>

IsDigit(ch) == \E n \in 1..10 : DigitChars[n] = ch

DigitVal(ch) == (CHOOSE n \in 1..10 : DigitChars[n] = ch) - 1

RECURSIVE NatToStr(_)
NatToStr(n) ==
    IF n < 10 THEN <<DigitChars[n + 1]>>
    ELSE NatToStr(n \div 10) \o <<DigitChars[(n % 10) + 1]>>

\* str(n) / f"{n}"
IntToStr(n) == IF n < 0 THEN <<"-">> \o NatToStr(0 - n) ELSE NatToStr(n)

RECURSIVE Zeros(_)
Zeros(k) == IF k <= 0 THEN <<>> ELSE <<"0">> \o Zeros(k - 1)

\* f"{n:0<w>d}": zero padding up to a MINIMUM width w, the sign counted in it
ZeroPad(n, w) ==
    IF n < 0
    THEN <<"-">> \o Zeros(w - 1 - Len(NatToStr(0 - n))) \o NatToStr(0 - n)
    ELSE Zeros(w - Len(NatToStr(n))) \o NatToStr(n)

\* s.find(c) as a 1-based position, 0 when c does not occur
FindChar(s, c) ==
    IF \E k \in 1..Len(s) : s[k] = c
    THEN CHOOSE k \in 1..Len(s) : s[k] = c /\ \A j \in 1..(k - 1) : s[j] # c
    ELSE 0

\* s.split(c): every occurrence of c separates two segments
RECURSIVE Split(_, _)
Split(s, c) ==
    LET k == FindChar(s, c) IN
    IF k = 0 THEN <<s>>
    ELSE <<SubSeq(s, 1, k - 1)>> \o Split(SubSeq(s, k + 1, Len(s)), c)

\* s.strip() for the blank
RECURSIVE Strip(_)
Strip(s) ==
    IF s = <<>> THEN s
    ELSE IF s[1] = " " THEN Strip(Tail(s))
    ELSE IF s[Len(s)] = " " THEN Strip(SubSeq(s, 1, Len(s) - 1))
    ELSE s

\* the digits of an int() literal: digits, single underscores between them
DigitBody(b) ==
    /\ b # <<>>
    /\ IsDigit(b[1])
    /\ IsDigit(b[Len(b)])
    /\ \A k \in 1..Len(b) : IsDigit(b[k]) \/ b[k] = "_"
    /\ \A k \in 1..(Len(b) - 1) : ~(b[k] = "_" /\ b[k + 1] = "_")

Unsigned(s) ==
    LET t == Strip(s) IN
    IF t # <<>> /\ t[1] \in {"+", "-"} THEN Tail(t) ELSE t

\* int(s) succeeds (otherwise it raises ValueError)
IsIntLiteral(s) == DigitBody(Unsigned(s))

RECURSIVE DigitsVal(_, _)
DigitsVal(b, acc) ==
    IF b = <<>> THEN acc
    ELSE IF b[1] = "_" THEN DigitsVal(Tail(b), acc)
    ELSE DigitsVal(Tail(b), (acc * 10) + DigitVal(b[1]))

\* int(s) for a string on which it succeeds
ParseInt(s) ==
    LET t == Strip(s) IN
    IF t # <<>> /\ t[1] = "-" THEN 0 - DigitsVal(Unsigned(s), 0)
    ELSE DigitsVal(Unsigned(s), 0)

(* ------------------------------------------------------------------ *)
(* generate_sku                                                         *)
(* ------------------------------------------------------------------ *)
\* letters = "ABCDEFGHIJKLMNOPQRSTUVWXYZ"
Letters ==
    {"A", "B", "C", "D", "E", "F", "G", "H", "I", "J", "K", "L", "M",
     "N", "O", "P", "Q", "R", "S", "T", "U", "V", "W", "X", "Y", "Z"}

\* The values explored for each draw of the seeded generator.  random.Random
\* is not reproduced: a draw is a choice among sample values of its range.
NumDigitsDraws == {6, 7}
NumericValueDraws(min_value, max_value) == {min_value}
AlphaLetterDraws == {"K"}
AlphaNumDraws == {99998, 99999}
PrefixLenDraws == {1}
SpecialLetterDraws == {"A", "L"}
Num1Draws == {100}
Num2Draws == {9999}
Num3Draws == {10}
Num4Draws == {99}
PatternDraws == 0..9
LastDigitDraws == {9}

RECURSIVE Pow10(_)
Pow10(k) == IF k = 0 THEN 1 ELSE 10 * Pow10(k - 1)

\* faulty variant: the occurrence of a 0-based index
OccurrenceBad(index) == (index \div 3) + 1
\* occurrence = ((index - 1) // 3) + 1
Occurrence(index) == ((index - 1) \div 3) + 1

\* seed = (occurrence * 1000) + (global_seed or 0)
SeedOf(occurrence, global_seed) == (occurrence * 1000) + global_seed

\* sku_type == 0: str(rng.randint(min_value, max_value))
NumericSkus ==
    { IntToStr(v) : v \in UNION { NumericValueDraws(Pow10(d - 1), Pow10(d) - 1) :
                                   d \in NumDigitsDraws } }

\* sku_type == 1: f"{prefix}-{num_part:05d}"
AlphanumericSkus ==
    { prefix \o <<"-">> \o ZeroPad(num_part, 5) :
        prefix \in [1..3 -> AlphaLetterDraws], num_part \in AlphaNumDraws }

\* the ten layouts of sku_type == 2; c1, c2 are the rng.choice(letters) draws
\* and d the rng.randint(1,9) draw of the layouts that make them
SpecialSku(prefix, num1, num2, num3, num4, pattern_type, c1, c2, d) ==
    LET n1 == IntToStr(num1)
        n2 == IntToStr(num2)
        n3 == IntToStr(num3)
        n4 == IntToStr(num4)
    IN
    CASE pattern_type = 0 ->
           prefix \o <<"-">> \o n1 \o <<"-">> \o n2 \o <<" ", " ", "#", c1, c2, "s">> \o n3
      [] pattern_type = 1 ->
           prefix \o <<"#">> \o n1 \o <<"-">> \o n2 \o <<"-">> \o n3
      [] pattern_type = 2 ->
           prefix \o <<"_">> \o n1 \o <<"-">> \o n2 \o <<"@">> \o n3
      [] pattern_type = 3 ->
           prefix \o <<" ", "-", " ">> \o n1 \o <<" ", "-", " ">> \o n2
                  \o <<" ", " ", "#", c1, c2, "s">> \o n3 \o <<"L">> \o IntToStr(d)
      [] pattern_type = 4 ->
           prefix \o <<"-">> \o n1 \o <<"#">> \o n2 \o <<"-">> \o n3
      [] pattern_type = 5 ->
           prefix \o <<"_">> \o n1 \o <<"_">> \o n2 \o <<"-">> \o n3
      [] pattern_type = 6 ->
           prefix \o <<"@">> \o n1 \o <<"_">> \o n2 \o <<"#">> \o n3
      [] pattern_type = 7 ->
           prefix \o <<"-">> \o n1 \o <<" ", "-", " ">> \o n2
                  \o <<" ", " ", "#", c1, c2, "s">> \o n3
      [] pattern_type = 8 ->
           prefix \o <<"#">> \o n1 \o <<"_">> \o n2 \o <<"-">> \o n3 \o <<"@">> \o n4
      [] OTHER ->
           prefix \o <<"-">> \o n1 \o <<"_">> \o n2 \o <<" ", " ", "#", c1, "s">> \o n3
                  \o <<"L">> \o IntToStr(d)

SpecialSkus ==
    { SpecialSku(prefix, num1, num2, num3, num4, pattern_type, c1, c2, d) :
        prefix \in UNION { [1..n -> SpecialLetterDraws] : n \in PrefixLenDraws },
        num1 \in Num1Draws, num2 \in Num2Draws, num3 \in Num3Draws, num4 \in Num4Draws,
        pattern_type \in PatternDraws,
        c1 \in SpecialLetterDraws, c2 \in SpecialLetterDraws, d \in LastDigitDraws }

\* the candidates generate_sku(sku_type, index, global_seed) can return
GenerateSku(sku_type, index, global_seed) ==
    IF sku_type = 0 THEN NumericSkus
    ELSE IF sku_type = 1 THEN AlphanumericSkus
    ELSE SpecialSkus

(* ------------------------------------------------------------------ *)
(* main                                                                 *)
(* ------------------------------------------------------------------ *)
VARIABLES
    pc,            \* "for": loop head; "while": the while test; "done"; "error"
    num_rows,      \* args.num_entries
    global_seed,
    i,             \* the loop index, 0 before the first row
    sku_type,
    occurrence,    \* as computed by the last generate_sku call
    seed,          \* the seed of the last generate_sku call
    original_sku,
    sku,
    counter,
    seen_skus,
    rows,
    csv_written,   \* the output file has been opened for writing
    csv_file,      \* the lines written to it
    error,         \* the exception that ended the run, "" if none
    tried,         \* history: the strings tested by the while condition, this row
    gen_log        \* history: per emitted row, how it was generated

vars ==
    <<pc, num_rows, global_seed, i, sku_type, occurrence, seed, original_sku, sku,
      counter, seen_skus, rows, csv_written, csv_file, error, tried, gen_log>>

\* --fulfilmentclient and --total-stock, at their defaults
fulfilmentclient == "Stock Prop Test"
total_stock == "5500"

\* global_seed = int(datetime.now().timestamp() * 1000) % 1000000: a value of
\* 0..999999.  One sample suffices here, the draws of generate_sku ranging
\* over the outcomes of every seed.
GlobalSeeds == {999999}

header ==
    <<"fulfilmentclient", "sku", "barcode", "product_name", "product_type",
      "product_price", "product_width", "product_height", "product_length",
      "product_weight", "product_volume", "product_size", "total_stock",
      "free_stock", "cycling_stock", "anticipation_stock", "backordered_stock",
      "total_inventory_value", "next_expiration_date",
      "stock_expiring_in_30_days", "expired_stock">>

base_row ==
    <<fulfilmentclient, "", "", "", "product", "100", "", "", "", "0", "0", "",
      total_stock, "1886", "2088", "1", "202", "0", "", "0", "0">>

\* f"Generated Product {i:04d}"
ProductName(index) ==
    <<"G", "e", "n", "e", "r", "a", "t", "e", "d", " ",
      "P", "r", "o", "d", "u", "c", "t", " ">> \o ZeroPad(index, 4)

\* faulty variant: the product name numbered from 0
MakeRowBad(s, index) == [base_row EXCEPT ![2] = s, ![4] = ProductName(index - 1)]
\* row = base_row.copy(); row[1] = sku; row[3] = product_name
MakeRow(s, index) == [base_row EXCEPT ![2] = s, ![4] = ProductName(index)]

\* sku_type = (i - 1) % 3
SkuType(index) == (index - 1) % 3

\* faulty variants of the while condition: a single retry; a repair that
\* always runs
CollidesOnce(s, seen) == s \in seen /\ counter = 0
CollidesAlways(s, seen) == s \in seen \/ counter = 0
\* the while condition: sku in seen_skus
Collides(s, seen) == s \in seen

\* One pass of the while body for the incremented counter: the new sku, or
\* the exception the pass raises.
RepairCode(type, original, cnt) ==
    IF type = 0
    THEN [err |-> "", sku |-> original \o <<"-">> \o IntToStr(cnt)]
    ELSE IF type = 1
    THEN LET parts == Split(original, "-") IN
         IF Len(parts) < 2 THEN [err |-> "IndexError", sku |-> original]
         ELSE IF ~IsIntLiteral(parts[2]) THEN [err |-> "ValueError", sku |-> original]
         ELSE [err |-> "",
               sku |-> parts[1] \o <<"-">> \o ZeroPad(ParseInt(parts[2]) + cnt, 5)]
    ELSE LET parts == Split(original, "L") IN
         IF Len(parts) < 2 THEN [err |-> "IndexError", sku |-> original]
         ELSE IF ~IsIntLiteral(parts[2]) THEN [err |-> "ValueError", sku |-> original]
         ELSE [err |-> "",
               sku |-> parts[1] \o <<"L">> \o IntToStr(ParseInt(parts[2]) + cnt)]

\* faulty variant: the Numeric suffix does not follow the counter
RepairFixedSuffix(type, original, cnt) ==
    IF type = 0 THEN [err |-> "", sku |-> original \o <<"-", "1">>]
    ELSE RepairCode(type, original, cnt)

\* faulty variant: the Numeric suffix is appended without its separator
RepairNoDash(type, original, cnt) ==
    IF type = 0 THEN [err |-> "", sku |-> original \o IntToStr(cnt)]
    ELSE RepairCode(type, original, cnt)

\* faulty variant: a candidate without 'L' gets a suffix, not an exception
RepairNoFail(type, original, cnt) ==
    IF type = 2 /\ Len(Split(original, "L")) < 2
    THEN [err |-> "", sku |-> original \o <<"L">> \o IntToStr(cnt)]
    ELSE RepairCode(type, original, cnt)

\* the while body of main, lines 210-222
Repair(type, original, cnt) == RepairCode(type, original, cnt)

Init ==
    /\ pc = "for"
    /\ num_rows \in (0 - NegRows)..MaxRows
    /\ global_seed \in GlobalSeeds
    /\ i = 0
    /\ sku_type = 0
    /\ occurrence = 0
    /\ seed = 0
    /\ original_sku = <<>>
    /\ sku = <<>>
    /\ counter = 0
    /\ seen_skus = {}
    /\ rows = <<>>
    /\ csv_written = FALSE
    /\ csv_file = <<>>
    /\ error = ""
    /\ tried = <<>>
    /\ gen_log = <<>>

\* for i in range(1, num_rows + 1): the head of the body up to the while test
ForBody ==
    /\ pc = "for"
    /\ i < num_rows
    /\ i' = i + 1
    /\ sku_type' = SkuType(i')
    /\ occurrence' = Occurrence(i')
    /\ seed' = SeedOf(occurrence', global_seed)
    /\ \E c \in GenerateSku(sku_type', i', global_seed) :
          /\ original_sku' = c
          /\ sku' = c
          /\ tried' = <<c>>
    /\ counter' = 0
    /\ pc' = "while"
    /\ UNCHANGED <<num_rows, global_seed, seen_skus, rows, csv_written, csv_file,
                   error, gen_log>>

\* one pass of the while body
WhileBody ==
    /\ pc = "while"
    /\ Collides(sku, seen_skus)
    /\ counter' = counter + 1
    /\ LET r == Repair(sku_type, original_sku, counter') IN
          IF r.err # ""
          THEN /\ pc' = "error"
               /\ error' = r.err
               /\ UNCHANGED <<sku, tried>>
          ELSE /\ pc' = "while"
               /\ sku' = r.sku
               /\ tried' = Append(tried, r.sku)
               /\ UNCHANGED error
    /\ UNCHANGED <<num_rows, global_seed, i, sku_type, occurrence, seed, original_sku,
                   seen_skus, rows, csv_written, csv_file, gen_log>>

\* the while test fails: the rest of the for body
EmitRow ==
    /\ pc = "while"
    /\ ~Collides(sku, seen_skus)
    /\ seen_skus' = seen_skus \cup {sku}
    /\ rows' = Append(rows, MakeRow(sku, i))
    /\ gen_log' = Append(gen_log, [sku_type |-> sku_type, occurrence |-> occurrence,
                                   original_sku |-> original_sku, sku |-> sku,
                                   counter |-> counter, seen_before |-> seen_skus,
                                   tried |-> tried])
    /\ pc' = "for"
    /\ UNCHANGED <<num_rows, global_seed, i, sku_type, occurrence, seed, original_sku,
                   sku, counter, csv_written, csv_file, error, tried>>

\* faulty variant: the file is written from inside the loop
WriteCsvEarly ==
    /\ pc = "for"
    /\ csv_written' = TRUE
    /\ csv_file' = <<header>> \o rows
    /\ pc' = "done"
    /\ UNCHANGED <<num_rows, global_seed, i, sku_type, occurrence, seed, original_sku,
                   sku, counter, seen_skus, rows, error, tried, gen_log>>

\* the range is exhausted: open the file, write the header and all the rows
WriteCsv ==
    /\ pc = "for"
    /\ i >= num_rows
    /\ csv_written' = TRUE
    /\ csv_file' = <<header>> \o rows
    /\ pc' = "done"
    /\ UNCHANGED <<num_rows, global_seed, i, sku_type, occurrence, seed, original_sku,
                   sku, counter, seen_skus, rows, error, tried, gen_log>>

Next == ForBody \/ WhileBody \/ EmitRow \/ WriteCsv

Spec == Init /\ [][Next]_vars

(* ------------------------------------------------------------------ *)
(* Properties                                                           *)
(* ------------------------------------------------------------------ *)
RowSku(r) == r[2]

\* C1: the SKUs written into the rows are pairwise distinct, and no SKU was
\* added to seen_skus (and put in a row) while an equal string was in it.
C1_SkusUnique ==
    /\ \A a, b \in 1..Len(rows) : a # b => RowSku(rows[a]) # RowSku(rows[b])
    /\ Cardinality(seen_skus) = Len(rows)
    /\ \A k \in 1..Len(gen_log) :
          /\ gen_log[k].sku \notin gen_log[k].seen_before
          /\ RowSku(rows[k]) = gen_log[k].sku

\* a finished run of MaxRows rows in which a row needed two repairs
C1_Witness ==
    /\ pc = "done"
    /\ Len(rows) = MaxRows
    /\ \E k \in 1..Len(gen_log) : gen_log[k].counter >= 2

\* C7: a candidate that is not in seen_skus when its row is processed is
\* emitted unchanged, with the counter still 0, and seen_skus gains exactly it.
C7_RepairIdentity ==
    [][(pc = "while" /\ original_sku \notin seen_skus)
         => /\ counter = 0
            /\ counter' = 0
            /\ sku' = original_sku
            /\ pc' = "for"
            /\ seen_skus' = seen_skus \cup {original_sku}
            /\ Len(rows') = Len(rows) + 1
            /\ RowSku(rows'[Len(rows')]) = original_sku]_vars

\* a row emitted unchanged into a set that already holds a repaired SKU
C7_Witness ==
    \E k \in 2..Len(gen_log) :
       /\ gen_log[k].counter = 0
       /\ gen_log[k].sku = gen_log[k].original_sku
       /\ gen_log[k].original_sku \notin gen_log[k].seen_before
       /\ gen_log[k - 1].counter > 0

SameStyleUpTo(k) == { j \in 1..k : gen_log[j].sku_type = gen_log[k].sku_type }

\* C8: row i is generated with style (i-1) mod 3 and occurrence
\* floor((i-1)/3)+1; occurrence never decreases, and the k-th row of a style
\* is generated with occurrence k.
C8_StyleOccurrence ==
    /\ \A k \in 1..Len(gen_log) :
          /\ gen_log[k].sku_type \in 0..2
          /\ \E q \in 0..MaxRows + 1 : k - 1 = (3 * q) + gen_log[k].sku_type
          /\ 3 * (gen_log[k].occurrence - 1) <= k - 1
          /\ k - 1 < 3 * gen_log[k].occurrence
          /\ gen_log[k].occurrence = Cardinality(SameStyleUpTo(k))
    /\ \A k \in 1..(Len(gen_log) - 1) :
          /\ gen_log[k].occurrence <= gen_log[k + 1].occurrence
          /\ gen_log[k + 1].sku_type = (gen_log[k].sku_type + 1) % 3
    /\ pc = "while" =>
          /\ i = Len(gen_log) + 1
          /\ 3 * (occurrence - 1) <= i - 1
          /\ i - 1 < 3 * occurrence
          /\ \E q \in 0..MaxRows + 1 : i - 1 = (3 * q) + sku_type /\ sku_type \in 0..2

\* the second row of every style has been generated
C8_Witness ==
    /\ Len(gen_log) >= 6
    /\ gen_log[6].sku_type = 2
    /\ gen_log[6].occurrence = 2
    /\ gen_log[4].occurrence = 2

\* C6: a completed run of N >= 1 rows wrote the 21-column header and then
\* exactly N rows in index order, each of 21 fields equal to the template
\* except for sku and product_name.
C6_Output ==
    (csv_written /\ num_rows >= 1) =>
       /\ Len(header) = 21
       /\ csv_file[1] = header
       /\ Len(csv_file) = 1 + num_rows
       /\ \A k \in 1..num_rows :
             /\ Len(csv_file[k + 1]) = 21
             /\ \A f \in (1..21) \ {2, 4} : csv_file[k + 1][f] = base_row[f]
             /\ csv_file[k + 1][4] =
                   <<"G", "e", "n", "e", "r", "a", "t", "e", "d", " ",
                     "P", "r", "o", "d", "u", "c", "t", " ">> \o ZeroPad(k, 4)
             /\ csv_file[k + 1][2] = gen_log[k].sku

\* a completed run of at least four rows, one of them repaired
C6_Witness ==
    /\ pc = "done"
    /\ csv_written
    /\ num_rows >= 4
    /\ Len(csv_file) = num_rows + 1
    /\ \E k \in 1..Len(gen_log) : gen_log[k].counter > 0

\* C4: the file is written only after all the rows were generated: it holds
\* the header and all the rows, or the run failed and no file was written.
C4_NoPartial ==
    /\ csv_written =>
          /\ pc = "done"
          /\ error = ""
          /\ Len(rows) = (IF num_rows > 0 THEN num_rows ELSE 0)
          /\ csv_file = <<header>> \o rows
    /\ (~csv_written) => csv_file = <<>>
    /\ pc # "done" => ~csv_written
    /\ pc = "error" => (error # "" /\ Len(rows) < num_rows)

\* a run that failed in the repair step after rows had been generated
C4_Witness ==
    /\ pc = "error"
    /\ Len(rows) >= 3
    /\ ~csv_written
    /\ csv_file = <<>>

Distinct(seq) == \A a, b \in 1..Len(seq) : a # b => seq[a] # seq[b]

\* the repair loop of a Numeric or Alphanumeric row, seen at the while test
C9_Inv ==
    /\ (pc = "while" /\ sku_type \in {0, 1}) =>
          /\ counter <= Cardinality(seen_skus)
          /\ Len(tried) = counter + 1
          /\ tried[Len(tried)] = sku
          /\ Distinct(tried)
          /\ \A k \in 1..counter : tried[k] \in seen_skus
    /\ pc = "error" => sku_type = 2
    /\ \A k \in 1..Len(gen_log) :
          gen_log[k].sku_type \in {0, 1} =>
             /\ gen_log[k].counter <= Cardinality(gen_log[k].seen_before)
             /\ gen_log[k].sku \notin gen_log[k].seen_before
             /\ Distinct(gen_log[k].tried)

\* one attempt of that loop
C9_Step ==
    (pc = "while" /\ sku_type \in {0, 1} /\ pc' = "while") =>
       /\ counter' = counter + 1
       /\ sku \in seen_skus
       /\ seen_skus' = seen_skus

\* C9: the repair loop of a Numeric or Alphanumeric row terminates: the
\* counter rises by 1 per attempt, every attempt is tested against the whole
\* of seen_skus (which the loop leaves unchanged), the attempts are pairwise
\* distinct, the loop raises no exception, and the counter never exceeds the
\* size of seen_skus, so at most that many attempts are made before the exit.
C9_RepairTerminates == [][C9_Step /\ C9_Inv']_vars

\* a Numeric row that left the loop after two attempts, in a run where an
\* Alphanumeric row was repaired too
C9_Witness ==
    /\ pc = "for"
    /\ Len(gen_log) >= 7
    /\ gen_log[7].sku_type = 0
    /\ gen_log[7].counter = 2
    /\ Len(gen_log[7].tried) = 3
    /\ gen_log[5].sku_type = 1
    /\ gen_log[5].counter = 1

(* ------------------------------------------------------------------ *)
(* The shapes generate_sku produces, over the full ranges of its draws  *)
(* ------------------------------------------------------------------ *)
HasChar(s, c) == FindChar(s, c) # 0

AllDigits(s) == s # <<>> /\ \A k \in 1..Len(s) : IsDigit(s[k])

Lit(t) == [k |-> "lit", t |-> t, lo |-> 0, hi |-> 0]
\* a decimal number of lo..hi digits without a leading zero
Num(lo, hi) == [k |-> "num", t |-> <<>>, lo |-> lo, hi |-> hi]
\* lo..hi decimal digits
Dig(lo, hi) == [k |-> "dig", t |-> <<>>, lo |-> lo, hi |-> hi]
\* lo..hi uppercase letters
Let(lo, hi) == [k |-> "let", t |-> <<>>, lo |-> lo, hi |-> hi]

RECURSIVE Matches(_, _)
Matches(s, pat) ==
    IF Len(pat) = 0 THEN Len(s) = 0
    ELSE LET tk == Head(pat) IN
         IF tk.k = "lit"
         THEN /\ Len(s) >= Len(tk.t)
              /\ SubSeq(s, 1, Len(tk.t)) = tk.t
              /\ Matches(SubSeq(s, Len(tk.t) + 1, Len(s)), Tail(pat))
         ELSE \E n \in tk.lo..tk.hi :
                 /\ n <= Len(s)
                 /\ \A j \in 1..n :
                       IF tk.k = "let" THEN s[j] \in Letters ELSE IsDigit(s[j])
                 /\ tk.k = "num" => s[1] # "0"
                 /\ Matches(SubSeq(s, n + 1, Len(s)), Tail(pat))

\* num1, num2 in 100..9999; num3 in 10..999; num4 in 10..99; the last digit in 1..9
Layouts ==
    LET P == Let(1, 4)
        N12 == Num(3, 4)
        N3 == Num(2, 3)
        N4 == Num(2, 2)
        D == Num(1, 1)
    IN
    << <<P, Lit(<<"-">>), N12, Lit(<<"-">>), N12, Lit(<<" ", " ", "#">>), Let(2, 2),
         Lit(<<"s">>), N3>>,
       <<P, Lit(<<"#">>), N12, Lit(<<"-">>), N12, Lit(<<"-">>), N3>>,
       <<P, Lit(<<"_">>), N12, Lit(<<"-">>), N12, Lit(<<"@">>), N3>>,
       <<P, Lit(<<" ", "-", " ">>), N12, Lit(<<" ", "-", " ">>), N12,
         Lit(<<" ", " ", "#">>), Let(2, 2), Lit(<<"s">>), N3, Lit(<<"L">>), D>>,
       <<P, Lit(<<"-">>), N12, Lit(<<"#">>), N12, Lit(<<"-">>), N3>>,
       <<P, Lit(<<"_">>), N12, Lit(<<"_">>), N12, Lit(<<"-">>), N3>>,
       <<P, Lit(<<"@">>), N12, Lit(<<"_">>), N12, Lit(<<"#">>), N3>>,
       <<P, Lit(<<"-">>), N12, Lit(<<" ", "-", " ">>), N12, Lit(<<" ", " ", "#">>),
         Let(2, 2), Lit(<<"s">>), N3>>,
       <<P, Lit(<<"#">>), N12, Lit(<<"_">>), N12, Lit(<<"-">>), N3, Lit(<<"@">>), N4>>,
       <<P, Lit(<<"-">>), N12, Lit(<<"_">>), N12, Lit(<<" ", " ", "#">>), Let(1, 1),
         Lit(<<"s">>), N3, Lit(<<"L">>), D>> >>

\* the documented shape of each style
ShapeOK(type, s) ==
    IF type = 0 THEN AllDigits(s)
    ELSE IF type = 1 THEN Matches(s, <<Let(3, 3), Lit(<<"-">>), Dig(5, 5)>>)
    ELSE \E p \in 1..Len(Layouts) : Matches(s, Layouts[p])

\* every candidate of generate_sku has the shape of its style
CandidatesShaped ==
    pc = "while" => ShapeOK(sku_type, original_sku)

\* the repaired rows among the emitted ones
Repaired == { k \in 1..Len(gen_log) : gen_log[k].original_sku \in gen_log[k].seen_before }

\* the text of s up to and including its last c, and the text after it
RECURSIVE LastChar(_, _)
LastChar(s, c) ==
    IF s = <<>> THEN 0
    ELSE IF s[Len(s)] = c THEN Len(s)
    ELSE LastChar(SubSeq(s, 1, Len(s) - 1), c)

UpToLast(s, c) == SubSeq(s, 1, LastChar(s, c))
AfterLast(s, c) == SubSeq(s, LastChar(s, c) + 1, Len(s))

\* the separator the repair of a style is said to split on
LacksSeparator(type, s) ==
    IF type = 2 THEN ~HasChar(s, "L") ELSE ~HasChar(s, "-")

\* C3 as stated: a colliding candidate without its separator ('L' for
\* AlphanumericSpecial, '-' for Numeric and Alphanumeric) stops the run in an
\* error state at that row, and repair never emits a malformed string or one
\* that is still in seen_skus.
C3_Original ==
    /\ \A k \in Repaired :
          /\ ~LacksSeparator(gen_log[k].sku_type, gen_log[k].original_sku)
          /\ ShapeOK(gen_log[k].sku_type, gen_log[k].sku)
          /\ gen_log[k].sku \notin gen_log[k].seen_before
    /\ (pc = "while" /\ counter > 0) => ~LacksSeparator(sku_type, original_sku)

\* C3, amended: a colliding AlphanumericSpecial candidate without 'L' stops
\* the run in an error state (IndexError) at that row, with no row emitted and
\* nothing written, and the run takes no further step; a colliding Numeric
\* candidate, which never contains '-', is not rejected but repaired; and no
\* string is emitted while it is still in seen_skus.
C3_FailFast ==
    [][/\ (pc = "while" /\ sku_type = 2 /\ sku \in seen_skus
             /\ ~HasChar(original_sku, "L"))
          => /\ pc' = "error"
             /\ error' = "IndexError"
             /\ rows' = rows
             /\ seen_skus' = seen_skus
             /\ ~csv_written'
       /\ (pc = "while" /\ sku_type = 0 /\ sku \in seen_skus)
          => /\ ~HasChar(original_sku, "-")
             /\ pc' = "while"
             /\ sku' # sku
       /\ Len(rows') > Len(rows) => RowSku(rows'[Len(rows')]) \notin seen_skus
       /\ pc # "error"]_vars

\* the run stopped at the second AlphanumericSpecial row, whose candidate
\* collided and holds no 'L'
C3_Witness ==
    /\ pc = "error"
    /\ error = "IndexError"
    /\ sku_type = 2
    /\ i = 6
    /\ Len(rows) = 5
    /\ ~HasChar(original_sku, "L")
    /\ original_sku \in seen_skus

\* C5 as stated: the string emitted for a colliding candidate differs from
\* the candidate and has the documented shape of its style.
C5_Original ==
    \A k \in Repaired :
       /\ gen_log[k].sku # gen_log[k].original_sku
       /\ ShapeOK(gen_log[k].sku_type, gen_log[k].sku)

\* C5, amended: the string emitted for a colliding candidate differs from the
\* candidate.  A repaired Numeric SKU is the candidate's digits, '-', and the
\* counter in decimal.  A repaired Alphanumeric SKU is the candidate's three
\* letters, '-', and the candidate's number plus the counter in at least five
\* digits: exactly five up to 99999, more beyond.  A repaired
\* AlphanumericSpecial SKU comes from a candidate with exactly one 'L' and is
\* the text up to that 'L' followed by the digit after it plus the counter.
C5_RepairedShape ==
    \A k \in Repaired :
       LET e == gen_log[k]
           parts == Split(e.sku, IF e.sku_type = 2 THEN "L" ELSE "-")
           orig == Split(e.original_sku, IF e.sku_type = 2 THEN "L" ELSE "-")
       IN
       /\ e.sku # e.original_sku
       /\ e.counter >= 1
       /\ Len(parts) = 2
       /\ AllDigits(parts[2])
       /\ e.sku_type = 0 =>
             /\ AllDigits(parts[1])
             /\ parts[1] = e.original_sku
             /\ ParseInt(parts[2]) = e.counter
             /\ parts[2][1] # "0"
       /\ e.sku_type = 1 =>
             /\ Matches(parts[1], <<Let(3, 3)>>)
             /\ parts[1] = orig[1]
             /\ ParseInt(parts[2]) = ParseInt(orig[2]) + e.counter
             /\ Len(parts[2]) >= 5
             /\ (Len(parts[2]) = 5) <=> (ParseInt(parts[2]) <= 99999)
       /\ e.sku_type = 2 =>
             /\ Len(orig) = 2
             /\ parts[1] = orig[1]
             /\ ParseInt(parts[2]) = ParseInt(orig[2]) + e.counter
             /\ parts[2][1] # "0"

\* a run in which a row of each style was repaired, the Alphanumeric one to a
\* six-digit number
C5_Witness ==
    /\ \E k \in Repaired : gen_log[k].sku_type = 0 /\ gen_log[k].counter = 2
    /\ \E k \in Repaired : gen_log[k].sku_type = 1 /\ Len(gen_log[k].sku) = 10
    /\ \E k \in Repaired : gen_log[k].sku_type = 2

\* a candidate of several 'L' whose text after the last 'L' is an integer
SeveralLEndingInInteger(s) ==
    /\ Len(Split(s, "L")) > 2
    /\ IsIntLiteral(AfterLast(s, "L"))

\* C10 as stated, for the candidates it singles out: a colliding
\* AlphanumericSpecial candidate in which 'L' occurs more than once and whose
\* text after the last 'L' is an integer is repaired by adding the counter to
\* that integer, the text up to the last 'L' unchanged; the run does not stop
\* on it.
C10_Original ==
    /\ pc = "error" => ~(sku_type = 2 /\ SeveralLEndingInInteger(original_sku))
    /\ \A k \in Repaired :
          (gen_log[k].sku_type = 2 /\ HasChar(gen_log[k].original_sku, "L")) =>
             /\ IsIntLiteral(AfterLast(gen_log[k].original_sku, "L"))
             /\ gen_log[k].sku =
                   UpToLast(gen_log[k].original_sku, "L")
                      \o IntToStr(ParseInt(AfterLast(gen_log[k].original_sku, "L"))
                                  + gen_log[k].counter)

\* C2 as stated: a non-positive row count ends the run in an error outcome,
\* with no row generated and no output file written.
C2_Original ==
    num_rows <= 0 =>
       /\ pc # "done"
       /\ ~csv_written
       /\ csv_file = <<>>
       /\ rows = <<>>

====
